---- MODULE Spec2Model ----
(***************************************************************************)
(* Model of imei_checker_gui.py: the Luhn check-digit function, the global *)
(* lookup CACHE, IMEModel.get_device_info and the batch loop of            *)
(* IMEController.process_imeis together with the view state it drives.     *)
(* Strings are sequences of one-character strings.                         *)
(* Spec is the process over repeated runs, SpecFair the same under a       *)
(* scheduler that keeps a run going, SpecCheckDigit the check-digit        *)
(* function on one argument, SpecTasks get_device_info called by several   *)
(* coroutines of one event loop.                                           *)
(***************************************************************************)
EXTENDS Integers, Sequences, FiniteSets, TLC

VARIABLES
    CACHE,             \* module-level dict: full identifier -> device_info
    pc,                \* position of the process_imeis coroutine
    imeis,             \* local list returned by view.get_imeis()
    idx,               \* 1-based position of the for loop over imeis
    digito,            \* loop variable of range(10) for a 14-digit entry
    imei_completo,     \* argument of the get_device_info call in progress
    device_info,       \* value returned by get_device_info (None or a dict)
    all_device_info,   \* local list of the records found in this run
    result_text,       \* view: records written to the result box
    progress_value,    \* view: progress["value"]
    progress_maximum,  \* view: progress["maximum"]
    export_data,       \* view: self.export_data
    inflight,          \* HTTP requests sent and not yet answered
    trace,             \* history of this run: calls, requests, view calls
    cache0,            \* history: CACHE when the current entry was started
    cache_run0,        \* history: CACHE when the run started
    progress0,         \* history: progress["value"] when the run started
    writes,            \* history: number of CACHE[imei] = ... per identifier
    used,              \* history: number of pieces of text entered so far
    used14,            \* history: number of 14-digit bases entered so far
    reason,            \* history: failure branch (line 82 or 85) of the call
                       \* that has just returned; "" once its value is used
    served,            \* history: identifiers the service answered "Done"
                       \* with a result for
    cd_imei,           \* calcular_digito_verificacao: argument
    cd_pc,             \* calcular_digito_verificacao: position
    cd_i,              \* calcular_digito_verificacao: enumerate index
    cd_soma,           \* calcular_digito_verificacao: soma
    cd_ret,            \* calcular_digito_verificacao: returned digit
    cd_calls,          \* history: number of calls made with this argument
    cd_first,          \* history: <<digit>> returned by the first call, if any
    t_pc,              \* interleaved get_device_info calls: position of each
    t_imei,            \* interleaved get_device_info calls: argument of each
    t_ret,             \* interleaved get_device_info calls: value returned
    answers            \* history: per identifier, the results the service
                       \* answered "Done" with, in the order they were stored

vars == <<CACHE, pc, imeis, idx, digito, imei_completo, device_info,
          all_device_info, result_text, progress_value, progress_maximum,
          export_data, inflight, trace, cache0, cache_run0, progress0,
          writes, used, used14, reason, served, cd_imei, cd_pc, cd_i,
          cd_soma, cd_ret, cd_calls, cd_first, t_pc, t_imei, t_ret, answers>>

batchVars == <<CACHE, pc, imeis, idx, digito, imei_completo, device_info,
               all_device_info, result_text, progress_value, progress_maximum,
               export_data, inflight, trace, cache0, cache_run0, progress0,
               writes, used, used14, reason, served>>

cdVars == <<cd_imei, cd_pc, cd_i, cd_soma, cd_ret, cd_calls, cd_first>>

taskVars == <<t_pc, t_imei, t_ret, answers>>

-----------------------------------------------------------------------------
(* Bounds of the model *)

\* total number of pieces of text entered over the life of the process
MaxTotal == 2

\* how many of these pieces may be 14-digit bases
MaxBases == 1

\* number of trailing digits of a check-digit input that range over 0..9
CDFree == 2

\* number of calls of the check-digit function made with one argument
MaxCalls == 2

\* number of get_device_info calls interleaved on the event loop
MaxTasks == 3

-----------------------------------------------------------------------------
(* Characters and the str methods the code uses *)

NL == "\n"
DigitChars == {"0", "1", "2", "3", "4", "5", "6", "7", "8", "9"}
Whitespace == {" ", NL}

\* int(char) for a decimal character
CharToInt(c) ==
    CASE c = "0" -> 0 [] c = "1" -> 1 [] c = "2" -> 2 [] c = "3" -> 3
      [] c = "4" -> 4 [] c = "5" -> 5 [] c = "6" -> 6 [] c = "7" -> 7
      [] c = "8" -> 8 [] c = "9" -> 9

\* str(digito) for digito in range(10)
IntToChar(d) == CHOOSE c \in DigitChars : CharToInt(c) = d

\* str.isdigit(): non-empty and every character a digit
isdigit(s) == Len(s) > 0 /\ \A k \in 1..Len(s) : s[k] \in DigitChars

RECURSIVE lstrip(_)
lstrip(s) ==
    IF s = <<>> THEN s
    ELSE IF Head(s) \in Whitespace THEN lstrip(Tail(s)) ELSE s

RECURSIVE rstrip(_)
rstrip(s) ==
    IF s = <<>> THEN s
    ELSE IF s[Len(s)] \in Whitespace THEN rstrip(SubSeq(s, 1, Len(s) - 1)) ELSE s

\* str.strip()
strip(s) == rstrip(lstrip(s))

RECURSIVE splitlines(_)
\* str.splitlines() for text whose only line break is "\n"
splitlines(s) ==
    IF s = <<>> THEN <<>>
    ELSE LET brk == {k \in 1..Len(s) : s[k] = NL}
         IN  IF brk = {} THEN <<s>>
             ELSE LET k == CHOOSE m \in brk : \A n \in brk : m <= n
                  IN  <<SubSeq(s, 1, k - 1)>> \o splitlines(SubSeq(s, k + 1, Len(s)))

RECURSIVE TextOf(_)
\* content of the ScrolledText widget holding the given lines: Tk ends the
\* text with a newline
TextOf(lines) ==
    IF lines = <<>> THEN <<NL>>
    ELSE IF Len(lines) = 1 THEN Head(lines) \o <<NL>>
    ELSE Head(lines) \o <<NL>> \o TextOf(Tail(lines))

\* IMEIView.get_imeis: imei_text.get("1.0", END).strip().splitlines()
get_imeis(text) == splitlines(strip(text))

\* IMEIView.get_api_key: api_key_entry.get().strip()
get_api_key(entry) == strip(entry)

-----------------------------------------------------------------------------
(* Values *)

\* Python's None as the value of an Optional[Dict]
None == [none |-> TRUE]

\* dict.get of a key the payload does not have
Missing == "None"

\* line 149: self.export_data = None. The only use of the attribute is the
\* test "not self.export_data", and the only assignment stores a non-empty
\* list, so None is written as the (equally falsy) empty list
NoExportData == <<>>

\* range(10) at line 115
NumCandidates == 10

\* lines a user may type into the IMEI box
EmptyLine == <<>>
BlankLine == <<" ">>
ShortLine == <<"1","2","3">>
Base14 == <<"1","2","3","4","5","6","7","8","9","0","1","2","3","4">>
Full15 == <<"1","2","3","4","5","6","7","8","9","0","1","2","3","4","5">>
Full15Padded == Full15 \o <<" ">>
Alpha14 == <<"1","2","3","4","5","6","7","8","9","0","1","2","3","A">>

\* two lines entered together: an identifier and a blank line under it
Full15ThenBlank == Full15 \o <<NL>> \o BlankLine

\* the pieces a text in the IMEI box is made of
InputLines == {ShortLine, Alpha14, Base14, Full15, Full15Padded, Full15ThenBlank}

\* the number of 14-digit bases among the pieces
BasesIn(lines) == Cardinality({k \in 1..Len(lines) : lines[k] = Base14})

\* the texts of at most n pieces, at most b of them 14-digit bases
Batches(n, b) ==
    {lines \in UNION {[1..k -> InputLines] : k \in 0..n} : BasesIn(lines) <= b}

\* contents of the API key entry
ApiKeyEntries == {<<" ">>, <<"K">>}

\* the "result" object the service holds for an identifier: brand and model,
\* the brand absent for some identifiers. The data of an identifier is fixed
\* (the code never looks into it); whether a request for it succeeds is not
ServiceResult(imei) ==
    IF imei[Len(imei)] \in {"0", "2", "4", "6", "8"}
    THEN [brand |-> "B1", model |-> "M1"]
    ELSE [brand |-> Missing, model |-> "M2"]

\* what one GET for imei can end in: an exception (connection error, HTTP
\* error status from raise_for_status, undecodable JSON) or a decoded payload
\* with a status and possibly a result
Responses(imei) ==
    {[transport |-> "error", status |-> Missing, result |-> None]}
    \cup {[transport |-> "ok", status |-> st, result |-> r] :
             st \in {"Done", "Failed"}, r \in {ServiceResult(imei), None}}

\* one entry of the history of a run
Event(op, i, imei, kind) == [op |-> op, idx |-> i, imei |-> imei, kind |-> kind]

-----------------------------------------------------------------------------
(* IMEModel.get_device_info *)

\* a lookup that never consults the cache
CacheHitNever(c, imei) == FALSE

\* line 61: imei in CACHE
CacheHit(c, imei) == imei \in DOMAIN c

\* a lookup that does not store the record it built
CachePutDropped(c, imei, info) == c

\* a cache that keeps the record it already has for an identifier
CachePutIfAbsent(c, imei, info) ==
    [k \in DOMAIN c \cup {imei} |-> IF k \in DOMAIN c THEN c[k] ELSE info]

\* a cache that holds the last record only
CachePutOnly(c, imei, info) == [k \in {imei} |-> info]

\* line 79: CACHE[imei] = device_info
CachePut(c, imei, info) ==
    [k \in DOMAIN c \cup {imei} |-> IF k = imei THEN info ELSE c[k]]

\* a lookup that builds a record from any payload that has a result
ResponseInfoAnyStatus(imei, resp) ==
    IF resp.transport = "error" THEN None
    ELSE IF resp.result # None
         THEN [IMEI |-> imei,
               Marca |-> resp.result.brand,
               Modelo |-> resp.result.model,
               Sistema_Operacional |-> "Desconhecido"]
         ELSE None

\* lines 69-86: the value get_device_info returns for a response
ResponseInfo(imei, resp) ==
    IF resp.transport = "error" THEN None
    ELSE IF resp.status = "Done" /\ resp.result # None
         THEN [IMEI |-> imei,
               Marca |-> resp.result.brand,
               Modelo |-> resp.result.model,
               Sistema_Operacional |-> "Desconhecido"]
         ELSE None

\* lines 61-63: cache hit, returns without a request
get_device_info_hit ==
    /\ pc = "call"
    /\ CacheHit(CACHE, imei_completo)
    /\ device_info' = CACHE[imei_completo]
    /\ trace' = Append(trace, Event("call", idx, imei_completo, "hit"))
    /\ pc' = "got"
    /\ UNCHANGED <<CACHE, imeis, idx, digito, imei_completo, all_device_info,
                   result_text, progress_value, progress_maximum, export_data,
                   inflight, cache0, progress0, writes, used>>
    /\ UNCHANGED <<cdVars, taskVars>>
    /\ UNCHANGED <<cache_run0, used14, reason, served>>

\* lines 65-68: cache miss, the GET is sent and the coroutine is suspended
get_device_info_request ==
    /\ pc = "call"
    /\ ~CacheHit(CACHE, imei_completo)
    /\ inflight' = inflight \cup {imei_completo}
    /\ trace' = Append(trace, Event("call", idx, imei_completo, "request"))
    /\ pc' = "await"
    /\ UNCHANGED <<CACHE, imeis, idx, digito, imei_completo, device_info,
                   all_device_info, result_text, progress_value,
                   progress_maximum, export_data, cache0, progress0, writes, used>>
    /\ UNCHANGED <<cdVars, taskVars>>
    /\ UNCHANGED <<cache_run0, used14, reason, served>>

\* lines 81-86: the branch a response that gives no record ends in: the
\* except clause (line 85) or the else of the status test (line 82)
FailureBranch(resp) ==
    IF resp.transport = "error" THEN "transport" ELSE "not-found"

\* the service answered status "Done" with a result
Answered(resp) ==
    resp.transport = "ok" /\ resp.status = "Done" /\ resp.result # None

\* lines 69-86: the GET ends; the payload is classified and a record stored
get_device_info_response ==
    /\ pc = "await"
    /\ \E resp \in Responses(imei_completo) :
         LET info == ResponseInfo(imei_completo, resp)
         IN  /\ device_info' = info
             /\ reason' = IF info = None THEN FailureBranch(resp) ELSE ""
             /\ served' = IF Answered(resp) THEN served \cup {imei_completo}
                           ELSE served
             /\ IF info # None
                THEN /\ CACHE' = CachePut(CACHE, imei_completo, info)
                     /\ writes' = CachePut(writes, imei_completo,
                                           IF imei_completo \in DOMAIN writes
                                           THEN writes[imei_completo] + 1 ELSE 1)
                     /\ trace' = Append(trace, Event("response", idx, imei_completo, "ok"))
                ELSE /\ UNCHANGED <<CACHE, writes>>
                     /\ trace' = Append(trace, Event("response", idx, imei_completo, "fail"))
    /\ inflight' = inflight \ {imei_completo}
    /\ pc' = "got"
    /\ UNCHANGED <<imeis, idx, digito, imei_completo, all_device_info,
                   result_text, progress_value, progress_maximum, export_data,
                   cache0, progress0, used>>
    /\ UNCHANGED <<cdVars, taskVars>>
    /\ UNCHANGED <<cache_run0, used14>>

-----------------------------------------------------------------------------
(* IMEController.process_imeis *)

\* line 108: the entry is skipped unless imei.strip() is non-empty
IsBlank(imei) == strip(imei) = <<>>

\* a validation that forgets isdigit()
IsValidImeiLengthOnly(imei) == Len(imei) \in {14, 15}

\* line 110: the entry passes unless "not imei.isdigit() or len(imei) not in [14, 15]"
IsValidImei(imei) == isdigit(imei) /\ Len(imei) \in {14, 15}

\* a candidate loop that counts down from 9
CandidateDescending(imei, d) == imei \o <<IntToChar(NumCandidates - 1 - d)>>

\* line 116: imei + str(digito)
Candidate(imei, d) == imei \o <<IntToChar(d)>>

\* range(9) in place of range(10)
HasNextCandidateShort(d) == d + 1 < NumCandidates - 1

\* line 115: whether range(10) has a value after d
HasNextCandidate(d) == d + 1 < NumCandidates

\* a handler that leaves the loop
NextEntryAborting(i) == Len(imeis) + 1

\* line 107: the for loop goes on to the entry after position i, also after
\* one of the except clauses of lines 132-135 has handled an exception
NextEntry(i) == i + 1

\* line 262: progress["value"] += 1
update_progress(v) == v + 1

\* lines 96-101: the API key or the list of IMEIs is empty
start_processing_rejected ==
    /\ pc \in {"idle", "done"}
    /\ \E entry \in ApiKeyEntries, lines \in Batches(MaxTotal - used, MaxBases - used14) :
         LET api_key == get_api_key(entry)
             list == get_imeis(TextOf(lines))
         IN  api_key = <<>> \/ list = <<>>
    /\ trace' = <<Event("show_error", 0, <<>>, "input")>>
    /\ pc' = "idle"
    /\ UNCHANGED <<CACHE, imeis, idx, digito, imei_completo, device_info,
                   all_device_info, result_text, progress_value,
                   progress_maximum, export_data, inflight, cache0, progress0,
                   writes, used>>
    /\ UNCHANGED <<cdVars, taskVars>>
    /\ UNCHANGED <<cache_run0, used14, reason, served>>

\* lines 96-106: the run starts, in a new frame: the locals of an earlier
\* run are gone
start_processing_accepted ==
    /\ pc \in {"idle", "done"}
    /\ \E entry \in ApiKeyEntries, lines \in Batches(MaxTotal - used, MaxBases - used14) :
         LET api_key == get_api_key(entry)
             list == get_imeis(TextOf(lines))
         IN  /\ api_key # <<>> /\ list # <<>>
             /\ imeis' = list
             /\ progress_maximum' = Len(list)
             /\ used' = used + Len(lines)
             /\ used14' = used14 + BasesIn(lines)
    /\ result_text' = <<>>
    /\ all_device_info' = <<>>
    /\ idx' = 1
    /\ trace' = <<>>
    /\ progress0' = progress_value
    /\ cache0' = CACHE
    /\ cache_run0' = CACHE
    /\ digito' = 0
    /\ imei_completo' = <<>>
    /\ device_info' = None
    /\ pc' = "loop"
    /\ UNCHANGED <<CACHE, progress_value, export_data, inflight, writes,
                   reason, served>>
    /\ UNCHANGED <<cdVars, taskVars>>

\* line 108: an entry that is empty after strip() is passed over
loop_skip ==
    /\ pc = "loop"
    /\ idx <= Len(imeis)
    /\ IsBlank(imeis[idx])
    /\ idx' = NextEntry(idx)
    /\ UNCHANGED <<CACHE, pc, imeis, digito, imei_completo, device_info,
                   all_device_info, result_text, progress_value,
                   progress_maximum, export_data, inflight, trace, cache0,
                   progress0, writes, used>>
    /\ UNCHANGED <<cdVars, taskVars>>
    /\ UNCHANGED <<cache_run0, used14, reason, served>>

\* lines 110-111 and 132-133: ValueError("IMEI inválido.") and its handler
loop_invalid ==
    /\ pc = "loop"
    /\ idx <= Len(imeis)
    /\ ~IsBlank(imeis[idx])
    /\ ~IsValidImei(imeis[idx])
    /\ trace' = Append(trace, Event("show_error", idx, imeis[idx], "validation"))
    /\ idx' = NextEntry(idx)
    /\ cache0' = CACHE
    /\ UNCHANGED <<CACHE, pc, imeis, digito, imei_completo, device_info,
                   all_device_info, result_text, progress_value,
                   progress_maximum, export_data, inflight, progress0, writes,
                   used>>
    /\ UNCHANGED <<cdVars, taskVars>>
    /\ UNCHANGED <<cache_run0, used14, reason, served>>

\* lines 114-117 and 126: a valid entry; the first get_device_info call is made
loop_valid ==
    /\ pc = "loop"
    /\ idx <= Len(imeis)
    /\ ~IsBlank(imeis[idx])
    /\ IsValidImei(imeis[idx])
    /\ IF Len(imeis[idx]) = 14
       THEN /\ digito' = 0
            /\ imei_completo' = Candidate(imeis[idx], 0)
       ELSE /\ imei_completo' = imeis[idx]
            /\ UNCHANGED digito
    /\ cache0' = CACHE
    /\ pc' = "call"
    /\ UNCHANGED <<CACHE, imeis, idx, device_info, all_device_info,
                   result_text, progress_value, progress_maximum, export_data,
                   inflight, trace, progress0, writes, used>>
    /\ UNCHANGED <<cdVars, taskVars>>
    /\ UNCHANGED <<cache_run0, used14, reason, served>>

\* lines 118-121 / 127-129 and 131: a record came back; it is collected,
\* shown, the candidate loop is left and the progress bar advanced
found ==
    /\ pc = "got"
    /\ device_info # None
    /\ all_device_info' = Append(all_device_info, device_info)
    /\ result_text' = Append(result_text, device_info)
    /\ progress_value' = update_progress(progress_value)
    /\ trace' = trace \o <<Event("add_result", idx, device_info.IMEI, ""),
                           Event("update_progress", idx, imeis[idx], "")>>
    /\ idx' = NextEntry(idx)
    /\ pc' = "loop"
    /\ UNCHANGED <<CACHE, imeis, digito, imei_completo, device_info,
                   progress_maximum, export_data, inflight, cache0, progress0,
                   writes, used>>
    /\ UNCHANGED <<cdVars, taskVars>>
    /\ reason' = ""
    /\ UNCHANGED <<cache_run0, used14, served>>

\* lines 119-120 and 134-135: view.add_result raises (a Tk error) after the
\* record was collected; the handler reports it
found_add_result_raises ==
    /\ pc = "got"
    /\ device_info # None
    /\ all_device_info' = Append(all_device_info, device_info)
    /\ trace' = Append(trace, Event("show_error", idx, imeis[idx], "unexpected"))
    /\ idx' = NextEntry(idx)
    /\ pc' = "loop"
    /\ UNCHANGED <<CACHE, imeis, digito, imei_completo, device_info,
                   result_text, progress_value, progress_maximum, export_data,
                   inflight, cache0, progress0, writes, used>>
    /\ UNCHANGED <<cdVars, taskVars>>
    /\ reason' = ""
    /\ UNCHANGED <<cache_run0, used14, served>>

\* lines 115-118: the candidate failed and range(10) has another digit
not_found_next ==
    /\ pc = "got"
    /\ device_info = None
    /\ Len(imeis[idx]) = 14
    /\ HasNextCandidate(digito)
    /\ digito' = digito + 1
    /\ imei_completo' = Candidate(imeis[idx], digito + 1)
    /\ pc' = "call"
    /\ UNCHANGED <<CACHE, imeis, idx, device_info, all_device_info,
                   result_text, progress_value, progress_maximum, export_data,
                   inflight, trace, cache0, progress0, writes, used>>
    /\ UNCHANGED <<cdVars, taskVars>>
    /\ reason' = ""
    /\ UNCHANGED <<cache_run0, used14, served>>

\* lines 122-123 and 131: range(10) is exhausted, the for-else reports it
not_found_last ==
    /\ pc = "got"
    /\ device_info = None
    /\ Len(imeis[idx]) = 14
    /\ ~HasNextCandidate(digito)
    /\ progress_value' = update_progress(progress_value)
    /\ trace' = trace \o <<Event("show_error", idx, imeis[idx], "no_completion"),
                           Event("update_progress", idx, imeis[idx], "")>>
    /\ idx' = NextEntry(idx)
    /\ pc' = "loop"
    /\ UNCHANGED <<CACHE, imeis, digito, imei_completo, device_info,
                   all_device_info, result_text, progress_maximum, export_data,
                   inflight, cache0, progress0, writes, used>>
    /\ UNCHANGED <<cdVars, taskVars>>
    /\ reason' = ""
    /\ UNCHANGED <<cache_run0, used14, served>>

\* a lookup of a 15-digit entry that is made again when it returned None
not_found_15_retry ==
    /\ pc = "got"
    /\ device_info = None
    /\ Len(imeis[idx]) = 15
    /\ pc' = "call"
    /\ reason' = ""
    /\ UNCHANGED <<CACHE, imeis, idx, digito, imei_completo, device_info,
                   all_device_info, result_text, progress_value,
                   progress_maximum, export_data, inflight, trace, cache0,
                   progress0, writes, used, cache_run0, used14, served>>
    /\ UNCHANGED <<cdVars, taskVars>>

\* lines 126-127 and 131: a 15-digit entry whose lookup returned None
not_found_15 ==
    /\ pc = "got"
    /\ device_info = None
    /\ Len(imeis[idx]) = 15
    /\ progress_value' = update_progress(progress_value)
    /\ trace' = Append(trace, Event("update_progress", idx, imeis[idx], ""))
    /\ idx' = NextEntry(idx)
    /\ pc' = "loop"
    /\ UNCHANGED <<CACHE, imeis, digito, imei_completo, device_info,
                   all_device_info, result_text, progress_maximum, export_data,
                   inflight, cache0, progress0, writes, used>>
    /\ UNCHANGED <<cdVars, taskVars>>
    /\ reason' = ""
    /\ UNCHANGED <<cache_run0, used14, served>>

\* lines 137-140: the loop is over
finish ==
    /\ pc = "loop"
    /\ idx > Len(imeis)
    /\ IF all_device_info # <<>>
       THEN /\ export_data' = all_device_info
            /\ trace' = Append(trace, Event("show_info", 0, <<>>, "completed"))
       ELSE /\ UNCHANGED export_data
            /\ trace' = Append(trace, Event("show_info", 0, <<>>, "no_results"))
    /\ pc' = "done"
    /\ UNCHANGED <<CACHE, imeis, idx, digito, imei_completo, device_info,
                   all_device_info, result_text, progress_value,
                   progress_maximum, inflight, cache0, progress0, writes, used>>
    /\ UNCHANGED <<cdVars, taskVars>>
    /\ UNCHANGED <<cache_run0, used14, reason, served>>

-----------------------------------------------------------------------------
(* IMEModel.calcular_digito_verificacao *)

\* 14-digit bases of published IMEIs; their last CDFree digits are varied
CDSeeds ==
    {<<"4","9","0","1","5","4","2","0","3","2","3","7","5","1">>,
     <<"8","6","2","3","1","4","1","1","1","6","5","6","7","9">>,
     <<"3","5","2","9","0","9","8","6","0","2","1","0","5","7">>}

\* 14 characters with a letter in the middle, and with a leading space
Alpha14Mid == <<"1","2","3","4","5","6","7","A","9","0","1","2","3","4">>
Space14 == <<" ","2","3","4","5","6","7","8","9","0","1","2","3","4">>

\* the arguments the function is applied to: well-formed bases and malformed
\* strings (wrong length, a non-digit character)
CDInputs ==
    {SubSeq(seed, 1, 14 - CDFree) \o tail :
        seed \in CDSeeds, tail \in [1..CDFree -> DigitChars]}
    \cup {EmptyLine, ShortLine, Full15, Alpha14, Alpha14Mid, Space14}

\* imei[::-1]
Reverse(s) == [k \in 1..Len(s) |-> s[Len(s) + 1 - k]]

\* lines 48-51: the term position i (from 0) of the reversed string adds
DigitTerm(i, d) ==
    IF i % 2 = 1
    THEN IF 2 * d > 9 THEN 2 * d - 9 ELSE 2 * d
    ELSE d

\* line 55
CheckDigitOf(soma) == (10 - (soma % 10)) % 10

\* a function that takes a string of any length
LengthOkAny(imei) == TRUE

\* line 41: the function goes on unless len(imei) != 14
LengthOk(imei) == Len(imei) = 14

\* a sum kept from one call to the next
InitialSomaKept == cd_soma

\* line 45: soma = 0
InitialSoma == 0

\* lines 41-45: the length test
cd_enter ==
    /\ cd_pc = "start"
    /\ IF ~LengthOk(cd_imei)
       THEN /\ cd_pc' = "raised_len"
            /\ UNCHANGED <<cd_i, cd_soma>>
       ELSE /\ cd_pc' = "loop"
            /\ cd_i' = 0
            /\ cd_soma' = InitialSoma
    /\ UNCHANGED <<cd_imei, cd_ret, cd_calls, cd_first>>
    /\ UNCHANGED <<batchVars, taskVars>>

\* lines 46-52: one iteration over the reversed string
cd_step ==
    /\ cd_pc = "loop"
    /\ cd_i < Len(cd_imei)
    /\ LET char == Reverse(cd_imei)[cd_i + 1]
       IN  IF char \notin DigitChars
           THEN /\ cd_pc' = "raised_int"
                /\ UNCHANGED <<cd_i, cd_soma>>
           ELSE /\ cd_soma' = cd_soma + DigitTerm(cd_i, CharToInt(char))
                /\ cd_i' = cd_i + 1
                /\ UNCHANGED cd_pc
    /\ UNCHANGED <<cd_imei, cd_ret, cd_calls, cd_first>>
    /\ UNCHANGED <<batchVars, taskVars>>

\* lines 55-56
cd_return ==
    /\ cd_pc = "loop"
    /\ cd_i = Len(cd_imei)
    /\ cd_ret' = CheckDigitOf(cd_soma)
    /\ cd_first' = IF cd_calls = 1 THEN <<CheckDigitOf(cd_soma)>> ELSE cd_first
    /\ cd_pc' = "returned"
    /\ UNCHANGED <<cd_imei, cd_i, cd_soma, cd_calls>>
    /\ UNCHANGED <<batchVars, taskVars>>

\* the function is called again with the same argument
cd_again ==
    /\ cd_pc \in {"returned", "raised_len", "raised_int"}
    /\ cd_calls < MaxCalls
    /\ cd_calls' = cd_calls + 1
    /\ cd_pc' = "start"
    /\ UNCHANGED <<cd_imei, cd_i, cd_soma, cd_ret, cd_first>>
    /\ UNCHANGED <<batchVars, taskVars>>

-----------------------------------------------------------------------------
(* IMEModel.get_device_info called by several coroutines of one event loop *)

\* the calls that are interleaved
TaskIds == 1..MaxTasks

\* the identifiers the calls are made with
TaskImeis == {Full15, Base14 \o <<"0">>}

\* what the service may hold for an identifier at different times
ServiceResults(imei) ==
    {ServiceResult(imei), [brand |-> "B2", model |-> ServiceResult(imei).model]}

\* what one GET for imei can end in when the service's data may change
TaskResponses(imei) ==
    Responses(imei)
    \cup {[transport |-> "ok", status |-> st, result |-> r] :
             st \in {"Done", "Failed"}, r \in ServiceResults(imei)}

\* the results answered for identifier x so far
AnswersFor(a, x) == IF x \in DOMAIN a THEN a[x] ELSE <<>>

\* lines 61-63: call t finds its identifier in the cache and returns
task_hit(t) ==
    /\ t_pc[t] = "idle"
    /\ \E imei \in TaskImeis :
         /\ CacheHit(CACHE, imei)
         /\ t_imei' = [t_imei EXCEPT ![t] = imei]
         /\ t_ret' = [t_ret EXCEPT ![t] = CACHE[imei]]
    /\ t_pc' = [t_pc EXCEPT ![t] = "done"]
    /\ UNCHANGED <<batchVars, cdVars, answers>>

\* lines 61-68: call t finds no entry, sends the GET and is suspended; other
\* calls run until its response is there
task_request(t) ==
    /\ t_pc[t] = "idle"
    /\ \E imei \in TaskImeis :
         /\ ~CacheHit(CACHE, imei)
         /\ t_imei' = [t_imei EXCEPT ![t] = imei]
    /\ t_pc' = [t_pc EXCEPT ![t] = "await"]
    /\ UNCHANGED <<batchVars, cdVars, t_ret, answers>>

\* lines 69-86: call t is resumed with its response; from the decoded payload
\* to the return there is no await, so the classification and the cache write
\* are one step
task_response(t) ==
    /\ t_pc[t] = "await"
    /\ \E resp \in TaskResponses(t_imei[t]) :
         LET imei == t_imei[t]
             info == ResponseInfo(imei, resp)
         IN  /\ t_ret' = [t_ret EXCEPT ![t] = info]
             /\ IF info # None
                THEN /\ CACHE' = CachePut(CACHE, imei, info)
                     /\ answers' =
                            [x \in DOMAIN answers \cup {imei} |->
                                IF x = imei
                                THEN Append(AnswersFor(answers, imei), resp.result)
                                ELSE answers[x]]
                ELSE UNCHANGED <<CACHE, answers>>
    /\ t_pc' = [t_pc EXCEPT ![t] = "done"]
    /\ UNCHANGED <<pc, imeis, idx, digito, imei_completo, device_info,
                   all_device_info, result_text, progress_value,
                   progress_maximum, export_data, inflight, trace, cache0,
                   cache_run0, progress0, writes, used, used14, reason, served>>
    /\ UNCHANGED <<cdVars, t_imei>>

InitTasks ==
    /\ t_pc = [t \in TaskIds |-> "idle"]
    /\ t_imei = [t \in TaskIds |-> <<>>]
    /\ t_ret = [t \in TaskIds |-> None]
    /\ answers = <<>>

-----------------------------------------------------------------------------
(* The process: module load, IMEIView.__init__, then button clicks *)

InitBatch ==
    /\ CACHE = <<>>
    /\ pc = "idle"
    /\ imeis = <<>>
    /\ idx = 1
    /\ digito = 0
    /\ imei_completo = <<>>
    /\ device_info = None
    /\ all_device_info = <<>>
    /\ result_text = <<>>
    /\ progress_value = 0
    /\ progress_maximum = 100
    /\ export_data = NoExportData
    /\ inflight = {}
    /\ trace = <<>>
    /\ cache0 = <<>>
    /\ cache_run0 = <<>>
    /\ progress0 = 0
    /\ writes = <<>>
    /\ used = 0
    /\ used14 = 0
    /\ reason = ""
    /\ served = {}

InitCD ==
    /\ cd_imei = <<>>
    /\ cd_pc = "none"
    /\ cd_i = 0
    /\ cd_soma = 0
    /\ cd_ret = 0
    /\ cd_calls = 0
    /\ cd_first = <<>>

Init == InitBatch /\ InitCD /\ InitTasks

Next ==
    \/ start_processing_rejected
    \/ start_processing_accepted
    \/ loop_skip
    \/ loop_invalid
    \/ loop_valid
    \/ get_device_info_hit
    \/ get_device_info_request
    \/ get_device_info_response
    \/ found
    \/ found_add_result_raises
    \/ not_found_next
    \/ not_found_last
    \/ not_found_15
    \/ finish

Spec == Init /\ [][Next]_vars

\* the steps of a run once it has started: the event loop of line 313
\* (run_until_complete) runs the coroutine until it is over, and every request
\* sent is answered
RunStep ==
    \/ loop_skip
    \/ loop_invalid
    \/ loop_valid
    \/ get_device_info_hit
    \/ get_device_info_request
    \/ get_device_info_response
    \/ found
    \/ found_add_result_raises
    \/ not_found_next
    \/ not_found_last
    \/ not_found_15
    \/ finish

\* the process under a scheduler that keeps a started run going
SpecFair == Init /\ [][Next]_vars /\ WF_vars(RunStep)

\* calcular_digito_verificacao applied to one argument
InitCheckDigit ==
    /\ InitBatch
    /\ cd_imei \in CDInputs
    /\ cd_pc = "start"
    /\ cd_i = 0
    /\ cd_soma = 0
    /\ cd_ret = 0
    /\ cd_calls = 1
    /\ cd_first = <<>>
    /\ InitTasks

NextCheckDigit == cd_enter \/ cd_step \/ cd_return \/ cd_again

SpecCheckDigit == InitCheckDigit /\ [][NextCheckDigit]_vars

\* get_device_info called by MaxTasks coroutines, from an empty cache
NextTasks ==
    \E t \in TaskIds :
        \/ task_hit(t)
        \/ task_request(t)
        \/ task_response(t)

SpecTasks == Init /\ [][NextTasks]_vars

-----------------------------------------------------------------------------
(* Reading the history of a run *)

\* a run is under way or has run to its end
InRun == pc \in {"loop", "call", "await", "got", "done"}

\* the events of the entry at position j
EventsOf(j) == SelectSeq(trace, LAMBDA e : e.idx = j)

\* the get_device_info calls of the entry at position j and their responses
LookupEvents(j) ==
    SelectSeq(trace, LAMBDA e : e.idx = j /\ e.op \in {"call", "response"})

\* the entry at position j is 14 decimal digits
IsBase(j) == Len(imeis[j]) = 14 /\ \A k \in 1..14 : imeis[j][k] \in DigitChars

\* the entry at position j is 15 decimal digits
IsFull(j) == Len(imeis[j]) = 15 /\ \A k \in 1..15 : imeis[j][k] \in DigitChars

\* none of the lookups of entry j was answered from the cache
ColdEntry(j) ==
    \A k \in 1..Len(trace) :
        trace[k].idx = j /\ trace[k].op = "call" => trace[k].kind = "request"

\* no completion of the 14-digit string s is a key of the cache c
NoCompletionCached(c, s) ==
    \A d \in 0..9 : (s \o <<IntToChar(d)>>) \notin DOMAIN c

-----------------------------------------------------------------------------
(* C1 *)

\* the lookups of entry j are requests for the digits 0, 1, 2, ... in that
\* order, each followed by its response before the next is sent, and every
\* response that is followed by another request is a failure
C1_Ascending(j) ==
    LET ev == LookupEvents(j)
    IN  /\ Len(ev) <= 2 * 10
        /\ \A k \in 1..Len(ev) :
              IF k % 2 = 1
              THEN /\ ev[k].op = "call"
                   /\ ev[k].imei = imeis[j] \o <<IntToChar((k - 1) \div 2)>>
              ELSE /\ ev[k].op = "response"
                   /\ ev[k].imei = ev[k - 1].imei
                   /\ (k < Len(ev) => ev[k].kind = "fail")

\* entry j is over: its last request succeeded, for digit d, after exactly
\* d + 1 requests, and the record collected is the one of digit d; or all ten
\* requests failed
C1_Stopped(j) ==
    LET ev == LookupEvents(j)
        n == Len(ev) \div 2
    IN  /\ Len(ev) = 2 * n
        /\ n >= 1
        /\ IF ev[2 * n].kind = "ok"
           THEN \E k \in 1..Len(all_device_info) :
                    all_device_info[k].IMEI = imeis[j] \o <<IntToChar(n - 1)>>
           ELSE n = 10

-----------------------------------------------------------------------------
(* C2 *)

\* the positions in the history of the remote queries of entry j
RequestsOf(j) ==
    {k \in 1..Len(trace) :
        trace[k].idx = j /\ trace[k].op = "call" /\ trace[k].kind = "request"}

\* entry j obtained the record of identifier x, from the service or the cache
ResolvedAs(j, x) ==
    \E k \in 1..Len(trace) :
        /\ trace[k].idx = j
        /\ trace[k].imei = x
        /\ \/ trace[k].op = "response" /\ trace[k].kind = "ok"
           \/ trace[k].op = "call" /\ trace[k].kind = "hit"

-----------------------------------------------------------------------------
(* C3 *)

\* the entry at position j is not empty once trimmed
NonEmpty(j) == strip(imeis[j]) # <<>>

\* the positions in the history of the progress steps of entry j
ProgressOf(j) ==
    {k \in 1..Len(trace) : trace[k].idx = j /\ trace[k].op = "update_progress"}

\* C3: the progress counter advances by exactly one for every non-empty entry
\* that is done, whatever its outcome, and at the end of the run it has
\* advanced by the number of non-empty entries.
C3_ProgressCountsEveryEntry ==
    InRun =>
        /\ \A j \in 1..Len(imeis) :
              j < idx /\ NonEmpty(j) => Cardinality(ProgressOf(j)) = 1
        /\ (pc = "done" =>
              progress_value - progress0 =
                  Cardinality({j \in 1..Len(imeis) : NonEmpty(j)}))

-----------------------------------------------------------------------------
(* C4 *)

\* the positions in the history of the outcomes recorded for entry j: a record
\* shown, or an error reported
OutcomesOf(j) ==
    {k \in 1..Len(trace) :
        trace[k].idx = j /\ trace[k].op \in {"add_result", "show_error"}}

\* C4: every non-empty entry of a batch has exactly one recorded outcome (a
\* record or a reported failure), the outcomes being in input order; a
\* 15-digit entry whose lookup fails has a recorded failure.
C4_EveryEntryRecorded ==
    InRun =>
        /\ \A j \in 1..Len(imeis) :
              j < idx /\ NonEmpty(j) => Cardinality(OutcomesOf(j)) = 1
        /\ \A j1, j2 \in 1..Len(imeis) :
              j1 < j2 =>
                  \A k1 \in OutcomesOf(j1), k2 \in OutcomesOf(j2) : k1 < k2

-----------------------------------------------------------------------------
(* C5 *)

\* entry j was attempted: it was rejected by the validation or looked up
Attempted(j) ==
    \E k \in 1..Len(trace) :
        /\ trace[k].idx = j
        /\ \/ trace[k].op = "call"
           \/ trace[k].op = "show_error" /\ trace[k].kind = "validation"

\* entry j failed: validation error, failed lookup, no valid completion or an
\* unexpected exception
Failed(j) ==
    \E k \in 1..Len(trace) :
        /\ trace[k].idx = j
        /\ \/ trace[k].op = "show_error"
           \/ trace[k].op = "response" /\ trace[k].kind = "fail"

\* C5: no failure of an entry aborts the batch: the run ends only after the
\* last entry, and every non-empty entry the loop has passed was attempted
\* (validated and, when 14 or 15 digits, looked up), whatever happened to the
\* entries before it.
C5_BatchNeverAborted ==
    InRun =>
        /\ idx <= Len(imeis) + 1
        /\ (pc = "done" => idx = Len(imeis) + 1)
        /\ \A j \in 1..Len(imeis) :
              j < idx /\ NonEmpty(j) =>
                  /\ Attempted(j)
                  /\ (IsBase(j) \/ IsFull(j) =>
                        \E k \in 1..Len(trace) :
                            trace[k].idx = j /\ trace[k].op = "call")

\* a finished run in which the first entry failed in a lookup and a later
\* entry was attempted all the same
C5_Witness ==
    /\ pc = "done"
    /\ \E i, j \in 1..Len(imeis) :
          /\ i < j
          /\ Failed(i)
          /\ \E k \in 1..Len(trace) :
                trace[k].idx = i /\ trace[k].op = "response" /\ trace[k].kind = "fail"
          /\ Attempted(j)

-----------------------------------------------------------------------------
(* C6 *)

\* the lookup at position k of the history is for an identifier that was
\* resolved successfully before it, in this run or an earlier one
ResolvedBefore(k) ==
    \/ trace[k].imei \in DOMAIN cache_run0
    \/ \E m \in 1..(k - 1) :
          /\ trace[m].op = "response"
          /\ trace[m].kind = "ok"
          /\ trace[m].imei = trace[k].imei

\* C6: once a 15-digit identifier has been resolved successfully, every later
\* resolution of it, in the same or a later run, returns the stored record
\* with no remote request, so its cache entry is written exactly once.
C6_WrittenOnce ==
    /\ DOMAIN writes = DOMAIN CACHE
    /\ \A x \in DOMAIN CACHE : writes[x] = 1 /\ CACHE[x].IMEI = x
    /\ inflight \cap DOMAIN CACHE = {}
    /\ (InRun =>
          \A k \in 1..Len(trace) :
              trace[k].op = "call" /\ ResolvedBefore(k) => trace[k].kind = "hit")
    /\ (/\ pc = "got"
        /\ trace[Len(trace)].op = "call"
        => /\ trace[Len(trace)].kind = "hit"
           /\ device_info = CACHE[imei_completo])

\* a later run in which an identifier stored by an earlier run was resolved
\* again, from the cache, its entry still written once
C6_Witness ==
    /\ InRun
    /\ Full15 \in DOMAIN cache_run0
    /\ \E j \in 1..Len(imeis) :
          /\ j < idx
          /\ imeis[j] = Full15
          /\ RequestsOf(j) = {}
          /\ ResolvedAs(j, Full15)
    /\ writes[Full15] = 1

-----------------------------------------------------------------------------
(* C7 *)

\* the 14-digit entry j is over and every one of its lookups failed
AllFailed(j) ==
    /\ j < idx
    /\ IsBase(j)
    /\ \A k \in 1..Len(trace) :
          trace[k].idx = j =>
              /\ trace[k].op = "call" => trace[k].kind = "request"
              /\ trace[k].op = "response" => trace[k].kind = "fail"

\* the positions in the history of the lookups of entry j
CallsOf(j) == {k \in 1..Len(trace) : trace[k].idx = j /\ trace[k].op = "call"}

\* the entries that obtained a record
ResolvedEntries ==
    {j \in 1..Len(imeis) : \E x \in DOMAIN CACHE : ResolvedAs(j, x)}

\* C7: when all ten candidates of a 14-digit base fail, exactly ten lookups
\* were made for it (one per digit), exactly one "no valid completion" failure
\* is reported for it and nothing else, it adds no record to the result set,
\* and the cache is as it was when the base was started.
C7_NoValidCompletion ==
    InRun =>
        /\ \A j \in 1..Len(imeis) :
              AllFailed(j) =>
                  /\ Cardinality(CallsOf(j)) = 10
                  /\ {trace[k].imei : k \in CallsOf(j)} =
                        {imeis[j] \o <<IntToChar(d)>> : d \in 0..9}
                  /\ \A k \in OutcomesOf(j) :
                        trace[k].op = "show_error" /\ trace[k].kind = "no_completion"
                  /\ Cardinality(OutcomesOf(j)) = 1
                  /\ (pc = "loop" /\ trace[Len(trace)].idx = j => CACHE = cache0)
        /\ (pc \in {"loop", "done"} =>
              /\ Len(all_device_info) = Cardinality(ResolvedEntries)
              /\ \A j \in 1..Len(imeis) :
                    AllFailed(j) => j \notin ResolvedEntries)

\* a base whose ten candidates have just failed
C7_Witness ==
    /\ pc = "loop"
    /\ \E j \in 1..Len(imeis) :
          /\ AllFailed(j)
          /\ trace[Len(trace)].idx = j
          /\ Cardinality(RequestsOf(j)) = 10

-----------------------------------------------------------------------------
(* C8 *)

\* the entry at position j is not empty, and is not all digits or not 14 or
\* 15 characters long
Malformed(j) ==
    /\ NonEmpty(j)
    /\ \/ \E k \in 1..Len(imeis[j]) : imeis[j][k] \notin DigitChars
       \/ Len(imeis[j]) \notin {14, 15}

\* C8: an identifier that is not all digits or whose length is not 14 or 15
\* ends in a validation failure reported for it; no lookup and no remote query
\* is made for it and no cache entry is written for it.
C8_ValidationFailure ==
    InRun =>
        /\ \A j \in 1..Len(imeis) :
              j < idx /\ Malformed(j) =>
                  /\ EventsOf(j) = <<Event("show_error", j, imeis[j], "validation")>>
                  /\ imeis[j] \notin DOMAIN CACHE
                  /\ (pc = "loop" /\ trace[Len(trace)].idx = j => CACHE = cache0)
        /\ (pc \in {"call", "await", "got"} => ~Malformed(idx))
        /\ \A x \in DOMAIN CACHE :
              Len(x) = 15 /\ \A k \in 1..15 : x[k] \in DigitChars

\* a 14-character entry with a letter has just been rejected
C8_Witness ==
    /\ pc = "loop"
    /\ \E j \in 1..Len(imeis) :
          /\ j < idx
          /\ imeis[j] = Alpha14
          /\ Malformed(j)
          /\ trace[Len(trace)] = Event("show_error", j, imeis[j], "validation")

-----------------------------------------------------------------------------
(* C9 *)

\* C9: each entry is trimmed before it is validated: an entry that is empty
\* once trimmed is skipped with no outcome, and an entry that is 14 or 15
\* digits once trimmed passes validation and is resolved with the trimmed
\* value.
C9_TrimmedBeforeValidation ==
    InRun =>
        \A j \in 1..Len(imeis) :
            j < idx =>
                LET t == strip(imeis[j])
                IN  /\ (t = <<>> => EventsOf(j) = <<>>)
                    /\ (/\ Len(t) \in {14, 15}
                        /\ \A k \in 1..Len(t) : t[k] \in DigitChars
                        => /\ CallsOf(j) # {}
                           /\ \A k \in CallsOf(j) :
                                 /\ Len(trace[k].imei) = 15
                                 /\ SubSeq(trace[k].imei, 1, Len(t)) = t
                           /\ \A k \in OutcomesOf(j) :
                                 trace[k].kind # "validation")

-----------------------------------------------------------------------------
(* C10 *)

RECURSIVE LuhnSum(_, _)
\* the Luhn sum of the digit string s, whose last character is at position p
\* from the right (0 for the check digit): the digits at odd positions are
\* doubled, and reduced by 9 when the double is above 9
LuhnSum(s, p) ==
    IF s = <<>> THEN 0
    ELSE LET d == CharToInt(s[Len(s)])
             t == IF p % 2 = 1 THEN (IF 2 * d > 9 THEN 2 * d - 9 ELSE 2 * d) ELSE d
         IN  t + LuhnSum(SubSeq(s, 1, Len(s) - 1), p + 1)

\* C10: the digit returned for a 14-digit base is its Luhn check digit: the
\* base followed by that digit passes the Luhn checksum.
C10_LuhnCheckDigit ==
    cd_pc = "returned" =>
        LuhnSum(cd_imei \o <<IntToChar(cd_ret)>>, 0) % 10 = 0

-----------------------------------------------------------------------------
(* C11 *)

\* the base of the test vector
VectorBase == <<"8","6","2","3","1","4","1","1","1","6","5","6","7","9">>

\* C11: for the base "86231411165679" the function returns 5, the check digit
\* of the full IMEI "862314111656795".
C11_KnownVector ==
    cd_pc = "returned" /\ cd_imei = VectorBase => cd_ret = 5

-----------------------------------------------------------------------------
(* C12 *)

\* the argument is a string of 14 decimal digits
WellFormed14(s) == Len(s) = 14 /\ \A k \in 1..14 : s[k] \in DigitChars

\* C12: for every string of 14 decimal digits the function raises nothing and
\* returns one integer in 0..9; a second call with the same string returns the
\* value the first call returned; the calls leave the shared cache alone.
C12_DigitDeterministic ==
    WellFormed14(cd_imei) =>
        /\ cd_pc \notin {"raised_len", "raised_int"}
        /\ (cd_pc = "returned" =>
              /\ cd_ret \in 0..9
              /\ cd_first = <<cd_ret>>)
        /\ (cd_calls > 1 => Len(cd_first) = 1)
        /\ CACHE = <<>>

\* the second call with the test vector's base has returned, with the digit
\* of the first call
C12_Witness ==
    /\ cd_imei = VectorBase
    /\ cd_calls = 2
    /\ cd_pc = "returned"
    /\ cd_first = <<cd_ret>>

-----------------------------------------------------------------------------
(* C13 *)

\* the argument is not a string of 14 decimal digits
IllFormed(s) == Len(s) # 14 \/ \E k \in 1..Len(s) : s[k] \notin DigitChars

-----------------------------------------------------------------------------
(* C14 *)

\* C14: the value a failed lookup returns to its caller tells the reason of
\* the failure: "transport" for an HTTP or transport error, a timeout or a
\* malformed payload, "not-found" for a payload whose status is not "Done" or
\* whose result is missing.
C14_FailureReasonReturned ==
    pc = "got" /\ reason # "" =>
        /\ "reason" \in DOMAIN device_info
        /\ device_info.reason = reason

-----------------------------------------------------------------------------
(* C15 *)

\* the record built from the answer the service gives for identifier x
RecordOf(x) ==
    [IMEI |-> x,
     Marca |-> ServiceResult(x).brand,
     Modelo |-> ServiceResult(x).model,
     Sistema_Operacional |-> "Desconhecido"]

\* the record r was built from an answer with status "Done" and a result for
\* the identifier it carries
Genuine(r) == r.IMEI \in served /\ r = RecordOf(r.IMEI)

\* the string s begins with the string p
StartsWith(s, p) == Len(p) <= Len(s) /\ SubSeq(s, 1, Len(p)) = p

\* every record of the sequence recs is genuine
AllGenuine(recs) == \A k \in 1..Len(recs) : Genuine(recs[k])

\* C15: every record in the cache, in the displayed results, in the records
\* collected by the run and in the export data was built from a response with
\* status "Done" and a result for exactly that record's identifier; a cache
\* key equals the identifier of its record; and a record obtained for an entry
\* of the batch is that entry when it has 15 digits and has the entry as its
\* first 14 digits when it has 14.
C15_NeverFabricates ==
    /\ \A x \in DOMAIN CACHE : CACHE[x].IMEI = x /\ Genuine(CACHE[x])
    /\ AllGenuine(result_text)
    /\ AllGenuine(all_device_info)
    /\ AllGenuine(export_data)
    /\ (pc = "got" /\ device_info # None =>
          /\ Genuine(device_info)
          /\ device_info.IMEI = imei_completo
          /\ StartsWith(device_info.IMEI, imeis[idx]))
    /\ (InRun =>
          /\ \A k \in 1..Len(trace) :
                trace[k].op = "add_result" =>
                    /\ Len(trace[k].imei) = 15
                    /\ StartsWith(trace[k].imei, imeis[trace[k].idx])
          /\ \A k \in 1..Len(all_device_info) :
                \E j \in 1..Len(imeis) :
                    /\ j <= idx
                    /\ StartsWith(all_device_info[k].IMEI, imeis[j]))

\* a finished run whose 14-digit base was resolved at digit 3: the record is
\* cached, displayed and offered for export
C15_Witness ==
    /\ pc = "done"
    /\ \E j \in 1..Len(imeis) :
          /\ IsBase(j)
          /\ \E k \in 1..Len(export_data) :
                /\ export_data[k].IMEI = imeis[j] \o <<"3">>
                /\ export_data[k] \in {result_text[n] : n \in 1..Len(result_text)}
                /\ CACHE[imeis[j] \o <<"3">>] = export_data[k]
    /\ (Base14 \o <<"2">>) \notin DOMAIN CACHE

-----------------------------------------------------------------------------
(* C16 *)

\* every entry of the cache c is an entry of the cache d, with the same record
Extends(d, c) == \A x \in DOMAIN c : x \in DOMAIN d /\ d[x] = c[x]

\* C16: over any sequence of runs no step removes or changes a cache entry,
\* and the step in which a lookup fails (transport error, status other than
\* "Done", missing result) leaves the whole cache as it was.
C16_CacheMonotonic ==
    [][/\ Extends(CACHE', CACHE)
       /\ (pc = "await" /\ pc' = "got" /\ device_info' = None => CACHE' = CACHE)
       /\ (pc # "await" => CACHE' = CACHE)]_vars

\* a lookup has just failed in a run that started with a record in the
\* cache, and the record is still there
C16_Witness ==
    /\ pc = "got"
    /\ device_info = None
    /\ reason # ""
    /\ cache_run0 # <<>>
    /\ CACHE = cache_run0
    /\ imei_completo \notin DOMAIN CACHE

-----------------------------------------------------------------------------
(* C17 *)

\* C17: at every point of every run, the first and the later ones, the
\* progress counter is between 0 and the maximum set for the run, the number
\* of identifiers supplied.
C17_ProgressWithinMaximum ==
    InRun =>
        /\ progress_maximum = Len(imeis)
        /\ 0 <= progress_value
        /\ progress_value <= progress_maximum

-----------------------------------------------------------------------------
(* C18 *)

\* C18: when a run that got past the input check is over, the data offered
\* for export is the list of the records resolved in that run, in input order:
\* nothing when the run resolved nothing.
C18_ExportIsThisRun ==
    pc = "done" => export_data = all_device_info

-----------------------------------------------------------------------------
(* C19 *)

\* a run has started and is not over
Running == pc \in {"loop", "call", "await", "got"}

\* the number of remote queries entry j may need: ten for 14 digits, one for
\* 15 digits, none for an empty or invalid entry
QueryLimit(j) == IF IsBase(j) THEN 10 ELSE IF IsFull(j) THEN 1 ELSE 0

\* no entry of the run has had more remote queries than its limit
WithinQueryLimits ==
    InRun =>
        /\ \A j \in 1..Len(imeis) : Cardinality(RequestsOf(j)) <= QueryLimit(j)
        /\ \A k \in 1..Len(trace) :
              trace[k].op = "call" => trace[k].idx \in 1..Len(imeis)

\* C19: provided every remote request returns, every run that has started
\* reaches its completion step, having issued at most 10 remote queries per
\* 14-digit identifier, at most 1 per 15-digit identifier and none for an
\* empty or invalid entry.
C19_RunTerminates ==
    /\ []WithinQueryLimits
    /\ (Running ~> pc = "done")

\* a run is over in which a 14-digit base took ten queries and a 15-digit
\* identifier one
C19_Witness ==
    /\ pc = "done"
    /\ \E i, j \in 1..Len(imeis) :
          /\ IsBase(i)
          /\ Cardinality(RequestsOf(i)) = 10
          /\ IsFull(j)
          /\ Cardinality(RequestsOf(j)) = 1

-----------------------------------------------------------------------------
(* C20 *)

\* the record built for identifier x from the result r of a response
RecordFrom(x, r) ==
    [IMEI |-> x,
     Marca |-> r.brand,
     Modelo |-> r.model,
     Sistema_Operacional |-> "Desconhecido"]

\* every identifier answered has one entry, holding the record of the answer
\* stored last; it is the record of the first answer when all the answers for
\* the identifier were the same
LastWriteWins ==
    /\ DOMAIN CACHE = DOMAIN answers
    /\ \A x \in DOMAIN CACHE :
          LET a == answers[x]
          IN  /\ a # <<>>
              /\ CACHE[x].IMEI = x
              /\ CACHE[x] = RecordFrom(x, a[Len(a)])
              /\ ((\A k \in 1..Len(a) : a[k] = a[1]) =>
                    CACHE[x] = RecordFrom(x, a[1]))

\* a step that adds or changes the entry of identifier x is the return of a
\* call made with x, which stored the record it returns; every other entry is
\* as it was
OwnEntryOnly ==
    \A x \in DOMAIN CACHE \cup DOMAIN CACHE' :
        /\ x \in DOMAIN CACHE'
        /\ (x \notin DOMAIN CACHE \/ CACHE'[x] # CACHE[x] =>
              \E t \in TaskIds :
                  /\ t_pc[t] = "await"
                  /\ t_pc'[t] = "done"
                  /\ t_imei[t] = x
                  /\ t_ret'[t] = CACHE'[x]
                  /\ \A y \in DOMAIN CACHE : y # x => CACHE'[y] = CACHE[y])

\* C20: when get_device_info calls are interleaved, each possibly suspended
\* between its cache check and its cache write, a call writes only the entry
\* of its own identifier, calls for distinct identifiers leave each other's
\* entries alone, and calls racing for one identifier leave one entry for it,
\* holding the record written last, which is the first one when the service
\* answers the same for the same identifier.
C20_ConcurrentCacheSafe ==
    /\ []LastWriteWins
    /\ [][OwnEntryOnly]_vars

\* two calls for the same identifier both missed the cache and both stored a
\* record, the second a different one, while a third call stored the record of
\* another identifier
C20_Witness ==
    /\ \A t \in TaskIds : t_pc[t] = "done"
    /\ Full15 \in DOMAIN answers
    /\ Len(answers[Full15]) = 2
    /\ answers[Full15][1] # answers[Full15][2]
    /\ CACHE[Full15] = RecordFrom(Full15, answers[Full15][2])
    /\ (Base14 \o <<"0">>) \in DOMAIN CACHE

====
